---- MODULE Spec2Model ----
(***************************************************************************)
(* A model of src/bot.py (Mika): the per-channel chat history kept by      *)
(* get_gemini_response, its persistence (load_chat_history,                *)
(* save_chat_history, _save_chat_history_sync), and the link preview       *)
(* pipeline (get_link_metadata, create_themed_embed).                      *)
(*                                                                         *)
(* Text is a sequence of characters (one-character strings; a non-ASCII    *)
(* code point of the source is written "U+XXXX").  A Python list is an     *)
(* object of the heap, so that two names of one list see each other's      *)
(* appends and a replaced list lives on for whoever still holds it.        *)
(***************************************************************************)
EXTENDS Integers, Sequences, FiniteSets, TLC

VARIABLES
    phase,          \* "boot" before on_ready has loaded the history, then "running"
    file,           \* the content of HISTORY_FILE
    store,          \* channel_chat_history: a dict, as its items in insertion order
    heap,           \* the list objects: id -> sequence of turns
    calls,          \* the get_gemini_response calls suspended at the await
    sent,           \* how many non-empty prompts have been taken up
    ret,            \* what the latest returning get_gemini_response returned
    pendingSaves,   \* save_chat_history tasks created and not yet started
    writing,        \* executor threads inside _save_chat_history_sync
    bootLog,        \* which branch load_chat_history took
    metaPc,         \* the link preview of one message: "start", "resolved", "composed"
    url,            \* the link found in the message
    page,           \* what the web holds at the link
    message,        \* the discord.Message the link came in
    meta,           \* what get_link_metadata returned (<<>> for None)
    embed           \* what create_themed_embed returned (<<>> before)

chatVars == <<phase, file, store, heap, calls, sent, ret, pendingSaves, writing, bootLog>>

metaVars == <<metaPc, url, page, message, meta, embed>>

vars == <<chatVars, metaVars>>

(***************************************************************************)
(* Bounds of the model.                                                    *)
(***************************************************************************)
MaxSent == 2

MaxSentLong == 9

MaxInFlight == 2

\* the length of the longest title a page gives
LongLen == 4100

(***************************************************************************)
(* Program constants.                                                      *)
(***************************************************************************)
MAX_HISTORY_TURNS == 6

Channels == {1, 2}

\* f"<@{client.user.id}>" and f"@{client.user.name}" for a bot user 7 named Mika
MentionId == << "<", "@", "7", ">" >>

MentionName == << "@", "M", "i", "k", "a" >>

APOLOGY ==
  << "O", "h", " ", "d", "e", "a", "r", "!", " ", "M", "i", "k", "a", "'", "s", " ", "c", "e",
     "l", "e", "s", "t", "i", "a", "l", " ", "p", "r", "o", "c", "e", "s", "s", "o", "r", "s",
     " ", "e", "n", "c", "o", "u", "n", "t", "e", "r", "e", "d", " ", "a", " ", "t", "i", "n",
     "y", " ", "g", "l", "i", "t", "c", "h", " ", "t", "r", "y", "i", "n", "g", " ", "t", "o",
     " ", "r", "e", "s", "p", "o", "n", "d", "!", " ", "U+F8FF", "U+00FC", "U+00E5", "U+220F",
     " ", "H", "m", "p", "h", ",", " ", "p", "l", "e", "a", "s", "e", " ", "t", "r", "y", " ",
     "a", "s", "k", "i", "n", "g", " ", "m", "e", " ", "a", "g", "a", "i", "n", "!", " ",
     "U+F8FF", "U+00FC", "U+00ED", "U+00F1" >>

(***************************************************************************)
(* Text: str.replace(old, ""), str.strip(), str(int).                      *)
(***************************************************************************)
Whitespace == {" ", "\t", "\n"}

IsPrefix(p, s) == Len(p) <= Len(s) /\ SubSeq(s, 1, Len(p)) = p

RECURSIVE Remove(_, _)
Remove(s, old) ==
    IF s = <<>> THEN <<>>
    ELSE IF IsPrefix(old, s) THEN Remove(SubSeq(s, Len(old) + 1, Len(s)), old)
    ELSE <<Head(s)>> \o Remove(Tail(s), old)

RECURSIVE LStrip(_)
LStrip(s) == IF s # <<>> /\ Head(s) \in Whitespace THEN LStrip(Tail(s)) ELSE s

RECURSIVE RStrip(_)
RStrip(s) ==
    IF s # <<>> /\ s[Len(s)] \in Whitespace THEN RStrip(SubSeq(s, 1, Len(s) - 1)) ELSE s

Strip(s) == RStrip(LStrip(s))

DigitChar(d) == << "0", "1", "2", "3", "4", "5", "6", "7", "8", "9" >>[d + 1]

RECURSIVE ToStr(_)
ToStr(n) == IF n < 10 THEN <<DigitChar(n)>> ELSE ToStr(n \div 10) \o <<DigitChar(n % 10)>>

LastN(s, n) == IF Len(s) <= n THEN s ELSE SubSeq(s, Len(s) - n + 1, Len(s))

\* clean_message_content with a plausible slip: the mentions removed, the result not stripped
clean_message_content_unstripped(message_content) ==
    IF message_content = <<>> THEN <<>>
    ELSE Remove(Remove(message_content, MentionId), MentionName)

\* client.user is set once the bot is logged in, which is when messages arrive
clean_message_content(message_content) ==
    IF message_content = <<>> THEN <<>>
    ELSE Strip(Remove(Remove(message_content, MentionId), MentionName))

(***************************************************************************)
(* The messages the environment sends.  The n-th non-empty prompt carries  *)
(* n in its text, so that a stored turn tells which message it came from.  *)
(***************************************************************************)
Body(n) == <<"m">> \o ToStr(n)

Prompts(n) == { MentionId \o <<" ">> \o Body(n), Body(n) \o <<" ">> \o MentionName }

MentionOnly ==
    { MentionId, MentionName, <<" ">> \o MentionId \o <<" ">>,
      MentionId \o <<" ">> \o MentionName }

\* the completion service is opaque: it answers a prompt with some text, or raises
Reply(text) == << "r", "e", ":" >> \o text

Turn(role, content) == [role |-> role, content |-> content]

Exchange(text) == << Turn("user", text), Turn("model", Reply(text)) >>

(***************************************************************************)
(* The dict channel_chat_history and the lists it holds.                   *)
(***************************************************************************)
IntKey(ch) == [t |-> "int", i |-> ch, s |-> <<>>]

StrKey(name) == [t |-> "str", i |-> 0, s |-> name]

EmptyHeap == [i \in {} |-> <<>>]

HasKey(st, k) == \E j \in 1..Len(st) : st[j].key = k

RefOf(st, k) == st[CHOOSE j \in 1..Len(st) : st[j].key = k].ref

SetItem(st, k, r) ==
    IF HasKey(st, k)
    THEN [j \in 1..Len(st) |-> IF st[j].key = k THEN [key |-> k, ref |-> r] ELSE st[j]]
    ELSE Append(st, [key |-> k, ref |-> r])

FreshId(hp) ==
    CHOOSE i \in 1..(Cardinality(DOMAIN hp) + 1) :
        i \notin DOMAIN hp /\ \A j \in 1..(i - 1) : j \in DOMAIN hp

Live(st, cs) == {st[j].ref : j \in 1..Len(st)} \cup {c.ref : c \in cs}

\* a list nobody names any more is gone
Collect(hp, st, cs) == [i \in (DOMAIN hp \cap Live(st, cs)) |-> hp[i]]

\* the turns the dict holds for a key (none when the key is absent)
HistoryOf(st, hp, k) == IF HasKey(st, k) THEN hp[RefOf(st, k)] ELSE <<>>

(***************************************************************************)
(* The history file: json.dump of the dict, json.load of the text.         *)
(***************************************************************************)
Missing == [kind |-> "missing", members |-> <<>>]

Corrupt == [kind |-> "corrupt", members |-> <<>>]

ArrayFile == [kind |-> "array", members |-> <<>>]

\* json.dump writes every key as a string: an int key as its decimal digits
KeyName(k) == IF k.t = "int" THEN ToStr(k.i) ELSE k.s

Dump(st, hp) ==
    [kind |-> "object",
     members |-> [j \in 1..Len(st) |-> [name |-> KeyName(st[j].key), value |-> hp[st[j].ref]]]]

\* json.load builds the dict member by member: every key a str, a repeated name
\* keeps its place and takes the later value
RECURSIVE LoadInto(_, _, _)
LoadInto(ms, st, hp) ==
    IF ms = <<>> THEN [store |-> st, heap |-> hp]
    ELSE LET id == FreshId(hp)
             st2 == SetItem(st, StrKey(Head(ms).name), id)
         IN  LoadInto(Tail(ms), st2, Collect((id :> Head(ms).value) @@ hp, st2, {}))

LoadDict(members) == LoadInto(members, <<>>, EmptyHeap)

\* a file an earlier run saved: one exchange in channel 1
SavedFile == Dump(<<[key |-> IntKey(1), ref |-> 1]>>, (1 :> Exchange(Body(0))))

InitFiles == {Missing, Corrupt, ArrayFile, SavedFile}

NoReturn == [n |-> 0, outcome |-> "none", text |-> <<>>]

\* no link preview under way
NoPreview ==
    /\ metaPc = "off"
    /\ url = <<>>
    /\ page = <<>>
    /\ message = <<>>
    /\ meta = <<>>
    /\ embed = <<>>

InitChat ==
    /\ phase = "boot"
    /\ file \in InitFiles
    /\ store = <<>>
    /\ heap = EmptyHeap
    /\ calls = {}
    /\ sent = 0
    /\ ret = NoReturn
    /\ pendingSaves = 0
    /\ writing = 0
    /\ bootLog = "none"

Init == NoPreview /\ InitChat

(***************************************************************************)
(* load_chat_history, called by on_ready.                                  *)
(***************************************************************************)
\* with a plausible slip: FileNotFoundError not caught
load_chat_history_uncaught ==
    /\ phase = "boot"
    /\ IF file.kind = "missing"
       THEN phase' = "failed" /\ UNCHANGED <<store, heap, bootLog>>
       ELSE /\ phase' = "running"
            /\ IF file.kind = "object"
               THEN LET d == LoadDict(file.members)
                    IN  store' = d.store /\ heap' = d.heap /\ bootLog' = "loaded"
               ELSE store' = <<>> /\ heap' = EmptyHeap /\ bootLog' = "decode error"
    /\ UNCHANGED <<file, calls, sent, ret, pendingSaves, writing>>
    /\ UNCHANGED metaVars

load_chat_history ==
    /\ phase = "boot"
    /\ phase' = "running"
    /\ IF file.kind = "object"
       THEN LET d == LoadDict(file.members)
            IN  store' = d.store /\ heap' = d.heap /\ bootLog' = "loaded"
       ELSE /\ store' = <<>>
            /\ heap' = EmptyHeap
            /\ bootLog' = CASE file.kind = "missing" -> "not found"
                            [] file.kind = "corrupt" -> "decode error"
                            [] OTHER -> "not a dictionary"
    /\ UNCHANGED <<file, calls, sent, ret, pendingSaves, writing>>
    /\ UNCHANGED metaVars

(***************************************************************************)
(* get_gemini_response up to the await at line 114.                        *)
(***************************************************************************)
GetGeminiCall(ch, raw) ==
    /\ phase = "running"
    /\ LET text == clean_message_content(raw)
       IN  IF text = <<>>
           THEN /\ ret' = [n |-> 0, outcome |-> "empty", text |-> <<>>]
                /\ UNCHANGED <<store, heap, calls, sent>>
           ELSE /\ Cardinality(calls) < MaxInFlight
                /\ LET key == IntKey(ch)
                       isNew == ~HasKey(store, key)
                       id == IF isNew THEN FreshId(heap) ELSE RefOf(store, key)
                   IN  /\ store' = IF isNew THEN Append(store, [key |-> key, ref |-> id])
                                   ELSE store
                       /\ heap' = IF isNew THEN (id :> <<>>) @@ heap ELSE heap
                       /\ calls' = calls \cup
                                   {[n |-> sent + 1, ch |-> ch, ref |-> id, text |-> text]}
                /\ sent' = sent + 1
                /\ UNCHANGED ret
    /\ UNCHANGED <<phase, file, pendingSaves, writing, bootLog>>
    /\ UNCHANGED metaVars

(***************************************************************************)
(* get_gemini_response from the await on, the completion having answered:  *)
(* lines 115 to 130.  The two appends go to the list fetched at line 93;   *)
(* the trim puts a new list in the dict and leaves the fetched one as is.  *)
(***************************************************************************)
Appended(c) == heap[c.ref] \o << Turn("user", c.text), Turn("model", Reply(c.text)) >>

UpdateHistory(c) ==
    LET L == Appended(c)
        h1 == [heap EXCEPT ![c.ref] = L]
        trim == Len(L) > MAX_HISTORY_TURNS * 2
        id == FreshId(h1)
        h2 == IF trim THEN (id :> LastN(L, MAX_HISTORY_TURNS * 2)) @@ h1 ELSE h1
        st2 == IF trim THEN SetItem(store, IntKey(c.ch), id) ELSE store
    IN  /\ store' = st2
        /\ heap' = Collect(h2, st2, calls \ {c})
        /\ calls' = calls \ {c}
        /\ ret' = [n |-> c.n, outcome |-> "ok", text |-> Reply(c.text)]
        /\ pendingSaves' = pendingSaves + 1

GetGeminiOk(c) ==
    /\ c \in calls
    /\ UpdateHistory(c)
    /\ UNCHANGED <<phase, file, sent, writing, bootLog>>
    /\ UNCHANGED metaVars

\* The same, while an executor thread is dumping the dict: the thread reads the
\* list between the two appends, or after them and before the trim, and ends.
GetGeminiOkDuringDump(c) ==
    /\ c \in calls
    /\ writing > 0
    /\ UpdateHistory(c)
    /\ writing' = writing - 1
    /\ file' \in { Dump(store, [heap EXCEPT ![c.ref] = Append(@, Turn("user", c.text))]),
                   Dump(store, [heap EXCEPT ![c.ref] = Appended(c)]) }
    /\ UNCHANGED <<phase, sent, bootLog>>
    /\ UNCHANGED metaVars

(***************************************************************************)
(* get_gemini_response from the await on, the completion having raised:    *)
(* lines 132 to 135.                                                       *)
(***************************************************************************)
\* with a plausible slip: the prompt was put in the history before the await
GetGeminiFail_PromptKept(c) ==
    /\ c \in calls
    /\ calls' = calls \ {c}
    /\ heap' = Collect([heap EXCEPT ![c.ref] = Append(@, Turn("user", c.text))],
                       store, calls \ {c})
    /\ ret' = [n |-> c.n, outcome |-> "raised", text |-> APOLOGY]
    /\ UNCHANGED <<phase, file, store, sent, pendingSaves, writing, bootLog>>
    /\ UNCHANGED metaVars

GetGeminiFail(c) ==
    /\ c \in calls
    /\ calls' = calls \ {c}
    /\ heap' = Collect(heap, store, calls \ {c})
    /\ ret' = [n |-> c.n, outcome |-> "raised", text |-> APOLOGY]
    /\ UNCHANGED <<phase, file, store, sent, pendingSaves, writing, bootLog>>
    /\ UNCHANGED metaVars

(***************************************************************************)
(* save_chat_history: the task runs _save_chat_history_sync in an executor *)
(* thread, which opens the file for writing (emptying it) and dumps the    *)
(* dict it was given, the live one.                                        *)
(***************************************************************************)
SaveOpen ==
    /\ pendingSaves > 0
    /\ pendingSaves' = pendingSaves - 1
    /\ writing' = writing + 1
    /\ file' = Corrupt
    /\ UNCHANGED <<phase, store, heap, calls, sent, ret, bootLog>>
    /\ UNCHANGED metaVars

SaveOpenFail ==
    /\ pendingSaves > 0
    /\ pendingSaves' = pendingSaves - 1
    /\ UNCHANGED <<phase, file, store, heap, calls, sent, ret, writing, bootLog>>
    /\ UNCHANGED metaVars

SaveWrite ==
    /\ writing > 0
    /\ writing' = writing - 1
    /\ file' \in (IF writing = 1 THEN {Dump(store, heap)} ELSE {Dump(store, heap), Corrupt})
    /\ UNCHANGED <<phase, store, heap, calls, sent, ret, pendingSaves, bootLog>>
    /\ UNCHANGED metaVars

\* with a plausible slip: the save awaited inside the handler's try block
SaveWriteFail_Propagates ==
    /\ writing > 0
    /\ writing' = writing - 1
    /\ file' = Corrupt
    /\ ret' = [ret EXCEPT !.outcome = "raised", !.text = APOLOGY]
    /\ UNCHANGED <<phase, store, heap, calls, sent, pendingSaves, bootLog>>
    /\ UNCHANGED metaVars

SaveWriteFail ==
    /\ writing > 0
    /\ writing' = writing - 1
    /\ file' = Corrupt
    /\ UNCHANGED <<phase, store, heap, calls, sent, ret, pendingSaves, bootLog>>
    /\ UNCHANGED metaVars

Next ==
    \/ load_chat_history
    \/ \E ch \in Channels, raw \in MentionOnly : GetGeminiCall(ch, raw)
    \/ \E ch \in Channels, raw \in Prompts(sent + 1) : sent < MaxSent /\ GetGeminiCall(ch, raw)
    \/ \E c \in calls : GetGeminiOk(c)
    \/ \E c \in calls : GetGeminiOkDuringDump(c)
    \/ \E c \in calls : GetGeminiFail(c)
    \/ SaveOpen
    \/ SaveOpenFail
    \/ SaveWrite
    \/ SaveWriteFail

Spec == Init /\ [][Next]_vars

(***************************************************************************)
(* A long run in one channel, the history file missing and no save task    *)
(* getting to run: enough exchanges for the trim at line 123.              *)
(***************************************************************************)
InitLong == Init /\ file = Missing

NextLong ==
    \/ load_chat_history
    \/ \E raw \in Prompts(sent + 1) : sent < MaxSentLong /\ GetGeminiCall(1, raw)
    \/ \E c \in calls : GetGeminiOk(c)
    \/ \E c \in calls : GetGeminiFail(c)

SpecLong == InitLong /\ [][NextLong]_vars

(***************************************************************************)
(* The link preview: text of the source, lines 170 to 307.                 *)
(***************************************************************************)
\* 0xC7A87A, CHILLAX_EMBED_COLORS["celestial_gold_wash"]
SELECTED_EMBED_COLOR == 13084794

DEFAULT_TITLE ==
    << "U+201A", "U+00FA", "U+00AE", " ", "C", "e", "l", "e", "s", "t", "i", "a", "l", " ",
       "L", "i", "n", "k", " ", "P", "r", "e", "v", "i", "e", "w", " ", "U+201A", "U+00FA",
       "U+00AE" >>

FILLER_DESCRIPTION ==
    << "U+201A", "U+00FA", "U+00AE", " ", "G", "l", "i", "m", "m", "e", "r", "i", "n", "g",
       " ", "w", "i", "t", "h", " ", "c", "o", "s", "m", "i", "c", " ", "i", "n", "s", "i",
       "g", "h", "t", ".", " ", "A", " ", "r", "e", "f", "i", "n", "e", "d", " ", "e", "x",
       "p", "e", "r", "i", "e", "n", "c", "e", ".", " ", "M", "i", "k", "a", "'", "s", " ",
       "t", "o", "u", "c", "h", " ", "e", "n", "s", "u", "r", "e", "s", " ", "b", "e", "a",
       "u", "t", "y", " ", "a", "n", "d", " ", "c", "l", "a", "r", "i", "t", "y", ".", " ",
       "U+F8FF", "U+00FC", "U+00ED", "U+00E9" >>

DescPrefix ==
    << "U+F8FF", "U+00FC", "U+00ED", "U+00F1", " " >>

Ellipsis ==
    << ".", ".", "." >>

title_emojis_left ==
    << "U+F8FF", "U+00FC", "U+00ED", "U+00F1", "U+F8FF", "U+00FC", "U+00E5", "U+00FC" >>

title_emojis_right ==
    << "U+F8FF", "U+00FC", "U+00EE", "U+00F3", " ", "|", " ", "U+201A", "U+2260", "U+00EA" >>

padding_top ==
    << "H", "e", "h", "e", "!", " ", "U+201A", "U+00FA", "U+00AE", " ", "M", "i", "k", "a",
       " ", "f", "o", "u", "n", "d", " ", "s", "o", "m", "e", "t", "h", "i", "n", "g", " ",
       "l", "o", "v", "e", "l", "y", " ", "f", "o", "r", " ", "y", "o", "u", "!", " ",
       "U+F8FF", "U+00FC", "U+00ED", "U+00F1" >>

padding_bottom ==
    << "T", "h", "i", "s", " ", "i", "s", " ", "a", " ", "l", "i", "t", "t", "l", "e", " ",
       "s", "p", "a", "r", "k", "l", "e", " ", "f", "r", "o", "m", " ", "t", "h", "e", " ",
       "c", "o", "s", "m", "o", "s", ",", " ", "j", "u", "s", "t", " ", "f", "o", "r", " ",
       "y", "o", "u", "!", " ", "U+F8FF", "U+00FC", "U+00F2", "U+00E2", "U+F8FF", "U+00FC",
       "U+00E5", "U+00FC" >>

FramingHead ==
    << "O", "h", "!", " ", "A", " " >>

FramingTail ==
    << "!", " ", "L", "e", "t", " ", "m", "e", " ", "m", "a", "k", "e", " ", "i", "t", " ",
       "s", "h", "i", "n", "e", ".", " ", "U+201A", "U+00FA", "U+00AE", " " >>

DomainFieldName ==
    << "U+F8FF", "U+00FC", "U+00E5", "U+00FC", " ", "*", "*", "C", "o", "s", "m", "i", "c",
       " ", "O", "r", "i", "g", "i", "n", "*", "*" >>

SharedBy ==
    << "S", "h", "a", "r", "e", "d", " ", "b", "y", ":", " " >>

ChannelLabel ==
    << "C", "h", "a", "n", "n", "e", "l", ":", " ", "#" >>

FooterHead ==
    << "U+F8FF", "U+00FC", "U+00ED", "U+00F1", " ", "M", "i", "k", "a", "'", "s", " ", "C",
       "r", "a", "f", "t", "s", "m", "a", "n", "s", "h", "i", "p", " ", "|", " " >>

FooterJoin ==
    << " ", "|", " " >>

FooterTail ==
    << " ", "|", " ", "U+201A", "U+00FA", "U+00AE", " ", "S", "o", " ", "m", "a", "g", "i",
       "c", "a", "l", "!", " ", "U+201A", "U+00FA", "U+00AE" >>

Http ==
    << "h", "t", "t", "p" >>

HttpColon ==
    << "h", "t", "t", "p", ":", "/", "/" >>

HttpsColon ==
    << "h", "t", "t", "p", "s", ":", "/", "/" >>

Markers ==
    { <<"c","e","l","e","s","t","i","a","l">>,
      <<"m","i","k","a","'","s"," ","t","o","u","c","h">>,
      <<"c","u","r","a","t","e","d">>,
      <<"l","i","n","k"," ","r","e","s","o","u","r","c","e">>,
      <<"b","e","a","u","t","y">>,
      <<"c","l","a","r","i","t","y">>,
      <<"f","o","u","n","d"," ","s","o","m","e","t","h","i","n","g"," ","l","o","v","e","l","y">> }

ImageExts ==
    { <<".","j","p","g">>, <<".","j","p","e","g">>, <<".","p","n","g">>,
      <<".","g","i","f">>, <<".","w","e","b","p">>, <<".","b","m","p">> }

(***************************************************************************)
(* Text: slicing, startswith, endswith, in, lower, title, replace, split.  *)
(* Case is that of the ASCII letters; the other code points of the source  *)
(* texts have no upper case form that lower() would change.                *)
(***************************************************************************)
Min(S) == CHOOSE x \in S : \A y \in S : x <= y

Max(S) == CHOOSE x \in S : \A y \in S : y <= x

\* s[:n]
FirstN(s, n) == IF Len(s) <= n THEN s ELSE SubSeq(s, 1, n)

\* s[n:]
DropN(s, n) == SubSeq(s, n + 1, Len(s))

EndsWith(s, e) == Len(e) <= Len(s) /\ SubSeq(s, Len(s) - Len(e) + 1, Len(s)) = e

\* w in s
Contains(s, w) == \E i \in 0..(Len(s) - Len(w)) : SubSeq(s, i + 1, i + Len(w)) = w

LowerLetters ==
    << "a","b","c","d","e","f","g","h","i","j","k","l","m",
       "n","o","p","q","r","s","t","u","v","w","x","y","z" >>

UpperLetters ==
    << "A","B","C","D","E","F","G","H","I","J","K","L","M",
       "N","O","P","Q","R","S","T","U","V","W","X","Y","Z" >>

IndexIn(c, letters) ==
    IF \E i \in 1..Len(letters) : letters[i] = c
    THEN CHOOSE i \in 1..Len(letters) : letters[i] = c
    ELSE 0

IsLetter(c) == IndexIn(c, LowerLetters) > 0 \/ IndexIn(c, UpperLetters) > 0

LowerChar(c) == IF IndexIn(c, UpperLetters) > 0 THEN LowerLetters[IndexIn(c, UpperLetters)] ELSE c

UpperChar(c) == IF IndexIn(c, LowerLetters) > 0 THEN UpperLetters[IndexIn(c, LowerLetters)] ELSE c

\* s.lower()
Lower(s) == [i \in 1..Len(s) |-> LowerChar(s[i])]

\* s.title(): a letter after a letter is lowered, any other letter is raised
Title(s) ==
    [i \in 1..Len(s) |->
        IF i > 1 /\ IsLetter(s[i - 1]) THEN LowerChar(s[i]) ELSE UpperChar(s[i])]

\* s.replace(a, b) for single characters
ReplaceChar(s, a, b) == [i \in 1..Len(s) |-> IF s[i] = a THEN b ELSE s[i]]

\* the part of s before the first character of stops, all of s if there is none
TakeUntil(s, stops) ==
    LET at == {i \in 1..Len(s) : s[i] \in stops}
    IN  IF at = {} THEN s ELSE SubSeq(s, 1, Min(at) - 1)

\* s.split('/')[-1]
LastSegment(s) ==
    LET at == {i \in 1..Len(s) : s[i] = "/"}
    IN  IF at = {} THEN s ELSE DropN(s, Max(at))

\* s[:i] for the last "/" at i, the "/" included; empty if there is none
UpToLastSlash(s) ==
    LET at == {i \in 1..Len(s) : s[i] = "/"}
    IN  IF at = {} THEN <<>> ELSE SubSeq(s, 1, Max(at))

\* n times the character c
Rep(c, n) == [i \in 1..n |-> c]

(***************************************************************************)
(* urllib.parse: urlparse and urljoin, for URLs without user info and      *)
(* parameters, and references without dot segments.                        *)
(***************************************************************************)
\* the scheme that ends at the first ":" of u, given the part of u before its
\* first ":", "/", "?" or "#"; empty if u has none
SchemeIn(u, head) ==
    IF Len(head) < Len(u) /\ u[Len(head) + 1] = ":" /\ head # <<>> /\ IsLetter(head[1])
    THEN Lower(head) ELSE <<>>

SchemeOf(u) == SchemeIn(u, TakeUntil(u, {":", "/", "?", "#"}))

AfterScheme(u, scheme) == IF scheme = <<>> THEN u ELSE DropN(u, Len(scheme) + 1)

NetlocIn(rest) ==
    IF IsPrefix(<<"/", "/">>, rest) THEN TakeUntil(DropN(rest, 2), {"/", "?", "#"}) ELSE <<>>

AfterNetloc(rest, netloc) ==
    IF IsPrefix(<<"/", "/">>, rest) THEN DropN(rest, 2 + Len(netloc)) ELSE rest

\* the parameters of the last segment are not part of the path
WithoutParams(full) == UpToLastSlash(full) \o TakeUntil(LastSegment(full), {";"})

PathIn(tail) == WithoutParams(TakeUntil(tail, {"?", "#"}))

SplitUrl(scheme, rest) ==
    [ scheme |-> scheme,
      netloc |-> NetlocIn(rest),
      path |-> PathIn(AfterNetloc(rest, NetlocIn(rest))) ]

urlparse(u) == SplitUrl(SchemeOf(u), AfterScheme(u, SchemeOf(u)))

Origin(b) == b.scheme \o <<":", "/", "/">> \o b.netloc

\* the reference resolved against the parsed base b
Resolved(b, ref) ==
    IF IsPrefix(<<"/", "/">>, ref) THEN b.scheme \o <<":">> \o ref
    ELSE IF Head(ref) = "/" THEN Origin(b) \o ref
    ELSE IF Head(ref) = "?" THEN Origin(b) \o b.path \o ref
    ELSE IF b.path = <<>> THEN Origin(b) \o <<"/">> \o ref
    ELSE Origin(b) \o UpToLastSlash(b.path) \o ref

\* urljoin with a plausible slip: the reference glued to the base
urljoin_glued(base, ref) == base \o ref

urljoin(base, ref) ==
    IF ref = <<>> THEN base
    ELSE IF SchemeOf(ref) # <<>> THEN ref
    ELSE Resolved(urlparse(base), ref)

(***************************************************************************)
(* What the environment gives a preview: a link, the page behind it (the   *)
(* tags that BeautifulSoup finds in it) and the message it came in.  A tag *)
(* or an attribute that may be missing is <<>> when missing and <<text>>   *)
(* when present.                                                           *)
(***************************************************************************)
UrlCoolThing ==
    << "h", "t", "t", "p", ":", "/", "/", "e", "x", "a", "m", "p", "l", "e", ".", "c", "o",
       "m", "/", "c", "o", "o", "l", "-", "t", "h", "i", "n", "g" >>

UrlRoot ==
    << "h", "t", "t", "p", ":", "/", "/", "e", "x", "a", "m", "p", "l", "e", ".", "c", "o",
       "m", "/" >>

UrlArticle ==
    << "h", "t", "t", "p", "s", ":", "/", "/", "b", "l", "o", "g", ".", "e", "x", "a", "m",
       "p", "l", "e", ".", "c", "o", "m", "/", "p", "o", "s", "t", "s", "/", "a", "_", "l",
       "o", "n", "g", "-", "a", "r", "t", "i", "c", "l", "e", "_", "n", "a", "m", "e", "?",
       "r", "e", "f", "=", "1" >>

UrlShortSeg ==
    << "h", "t", "t", "p", ":", "/", "/", "e", "x", "a", "m", "p", "l", "e", ".", "c", "o",
       "m", "/", "a", "b" >>

CoolThing ==
    << "C", "o", "o", "l", " ", "T", "h", "i", "n", "g" >>

TwTitleText ==
    << "T", "w", "e", "e", "t", " ", "T", "i", "t", "l", "e" >>

HtmlTitleText ==
    << " ", "P", "a", "g", "e", " ", "T", "i", "t", "l", "e", "\n" >>

ShortTitle ==
    << "a", "b", "c" >>

BlankTitle ==
    << " ", " ", " " >>

ImgRootRelative ==
    << "/", "i", "m", "g", ".", "p", "n", "g" >>

ImgRelative ==
    << "p", "i", "c", "s", "/", "p", "h", "o", "t", "o", ".", "G", "I", "F" >>

ImgAbsolute ==
    << "h", "t", "t", "p", "s", ":", "/", "/", "c", "d", "n", ".", "e", "x", "a", "m", "p",
       "l", "e", ".", "c", "o", "m", "/", "t", ".", "j", "p", "g" >>

ImgSchemeRelative ==
    << "/", "/", "c", "d", "n", ".", "e", "x", "a", "m", "p", "l", "e", ".", "c", "o", "m",
       "/", "a", ".", "w", "e", "b", "p" >>

ImgVector ==
    << "/", "l", "o", "g", "o", ".", "s", "v", "g" >>

ImgSmall ==
    << "h", "t", "t", "p", ":", "/", "/", "e", "x", "a", "m", "p", "l", "e", ".", "c", "o",
       "m", "/", "i", "c", "o", "n", "s", "/", "d", "o", "t", ".", "p", "n", "g" >>

ImgLarge ==
    << "h", "t", "t", "p", ":", "/", "/", "e", "x", "a", "m", "p", "l", "e", ".", "c", "o",
       "m", "/", "h", "e", "r", "o", ".", "j", "p", "e", "g" >>

ImgNoExt ==
    << "h", "t", "t", "p", "s", ":", "/", "/", "e", "x", "a", "m", "p", "l", "e", ".", "c",
       "o", "m", "/", "i", "m", "a", "g", "e", "?", "i", "d", "=", "5" >>

AuthorName ==
    << "Z", "a", "p" >>

ChannelName ==
    << "g", "e", "n", "e", "r", "a", "l" >>

AvatarUrl ==
    << "h", "t", "t", "p", "s", ":", "/", "/", "c", "d", "n", ".", "e", "x", "a", "m", "p",
       "l", "e", ".", "c", "o", "m", "/", "a", "v", "a", "t", "a", "r", ".", "p", "n", "g" >>

DefaultAvatarUrl ==
    << "h", "t", "t", "p", "s", ":", "/", "/", "c", "d", "n", ".", "e", "x", "a", "m", "p",
       "l", "e", ".", "c", "o", "m", "/", "e", "m", "b", "e", "d", "/", "a", "v", "a", "t",
       "a", "r", "s", "/", "0", ".", "p", "n", "g" >>

Urls == {UrlCoolThing, UrlRoot, UrlArticle, UrlShortSeg}

\* og:title, twitter:title, <title>
TitleSources ==
    { << <<CoolThing>>, <<TwTitleText>>, <<HtmlTitleText>> >>,
      << <<>>, <<TwTitleText>>, <<HtmlTitleText>> >>,
      << << <<>> >>, <<>>, <<HtmlTitleText>> >>,
      << <<>>, <<>>, <<>> >>,
      << <<BlankTitle>>, <<TwTitleText>>, <<>> >>,
      << <<ShortTitle>>, <<>>, <<>> >> }

\* a title as long as a page may give
LongTitleSource == << <<Rep("t", LongLen)>>, <<>>, <<>> >>

\* og:description, twitter:description, description
DescSources ==
    { << <<>>, <<>>, <<>> >>,
      << <<Rep("d", 50)>>, <<>>, <<>> >>,
      << <<Rep("d", 80)>>, <<>>, <<>> >>,
      << <<Rep("d", 91)>>, <<>>, <<>> >>,
      << <<Rep("d", 92)>>, <<>>, <<>> >>,
      << <<>>, <<Rep("d", 400) \o <<" ">> >>, <<>> >>,
      << << <<>> >>, <<>>, << <<"H","a","n","d"," ","C","U","R","A","T","E","D"," ">> \o Rep("d", 100)>> >> }

Img(src, dims) == [src |-> src, dims |-> dims]

\* og:image, twitter:image, the <img src=...> tags with what get_image_dimensions finds
ImageSources ==
    { << <<>>, <<>>, <<>> >>,
      << <<ImgRootRelative>>, <<>>, <<>> >>,
      << <<ImgVector>>, <<ImgAbsolute>>, <<>> >>,
      << <<ImgSchemeRelative>>, <<>>, <<>> >>,
      << <<ImgRelative>>, <<>>, <<>> >>,
      << <<>>, <<>>, << Img(ImgSmall, <<16, 16>>), Img(ImgNoExt, <<640, 480>>),
                        Img(ImgRootRelative, <<640, 480>>), Img(ImgAbsolute, <<>>),
                        Img(ImgLarge, <<640, 480>>) >> >>,
      << <<ImgNoExt>>, <<>>, << Img(ImgLarge, <<640, 480>>) >> >> }

PageOf(status, t, d, i) ==
    [ status |-> status,
      og_title |-> t[1], twitter_title |-> t[2], html_title |-> t[3],
      og_description |-> d[1], twitter_description |-> d[2], meta_description |-> d[3],
      og_image |-> i[1], twitter_image |-> i[2], img_tags |-> i[3] ]

NoTags == << <<>>, <<>>, <<>> >>

Pages ==
    {PageOf("ok", t, d, i) : t \in TitleSources, d \in DescSources, i \in ImageSources}
    \cup {PageOf("ok", LongTitleSource, d, NoTags) : d \in DescSources}
    \cup {PageOf(st, NoTags, NoTags, NoTags) : st \in {"timeout", "http_error"}}

\* message.author.display_name, message.author.avatar, message.guild, message.channel.name
Messages ==
    { [display_name |-> AuthorName, avatar |-> <<AvatarUrl>>, guild |-> TRUE,
       channel |-> ChannelName],
      [display_name |-> AuthorName, avatar |-> <<>>, guild |-> FALSE,
       channel |-> <<>>] }

\* tag and tag.get('content'): the tag is there and its text is not empty
Truthy(opt) == opt # <<>> /\ opt[1] # <<>>

(***************************************************************************)
(* get_link_metadata, lines 151 to 258.                                    *)
(***************************************************************************)
\* lines 170 to 178: the title the page gives, the placeholder if it gives none
ScrapedTitle(pg) ==
    IF Truthy(pg.og_title) THEN Strip(pg.og_title[1])
    ELSE IF Truthy(pg.twitter_title) THEN Strip(pg.twitter_title[1])
    ELSE IF Truthy(pg.html_title) THEN Strip(pg.html_title[1])
    ELSE DEFAULT_TITLE

\* line 184
CandidateTitle(u) == ReplaceChar(ReplaceChar(LastSegment(urlparse(u).path), "-", " "), "_", " ")

\* lines 183 and 185
HasCandidate(u) ==
    /\ Len(LastSegment(urlparse(u).path)) > 2
    /\ Len(CandidateTitle(u)) > 4
    /\ Len(CandidateTitle(u)) < 60

\* lines 181 to 186
TitleOf(u, pg) ==
    LET title == ScrapedTitle(pg)
    IN  IF (title = <<>> \/ title = DEFAULT_TITLE \/ Len(title) < 5) /\ HasCandidate(u)
        THEN Title(CandidateTitle(u))
        ELSE title

\* lines 195 to 198
ScrapedDesc(pg) ==
    IF Truthy(pg.og_description) THEN Strip(pg.og_description[1])
    ELSE IF Truthy(pg.twitter_description) THEN Strip(pg.twitter_description[1])
    ELSE IF Truthy(pg.meta_description) THEN Strip(pg.meta_description[1])
    ELSE <<>>

\* lines 201 to 204
DescriptionOf(pg) ==
    IF ScrapedDesc(pg) # <<>> /\ Len(ScrapedDesc(pg)) > 50
    THEN DescPrefix \o FirstN(ScrapedDesc(pg), 300) \o Ellipsis
    ELSE FILLER_DESCRIPTION

HasImageExt(u) == \E ext \in ImageExts : EndsWith(Lower(u), ext)

\* lines 221 to 224
GoodImgTag(img) ==
    /\ img.src # <<>>
    /\ IsPrefix(Http, img.src)
    /\ HasImageExt(img.src)
    /\ img.dims # <<>> /\ img.dims[1] > 80 /\ img.dims[2] > 80

\* lines 212 to 225
ImageCandidates(pg) ==
    LET fromMeta ==
            (IF Truthy(pg.og_image) THEN <<Strip(pg.og_image[1])>> ELSE <<>>)
            \o (IF Truthy(pg.twitter_image) THEN <<Strip(pg.twitter_image[1])>> ELSE <<>>)
        tags == SelectSeq(pg.img_tags, GoodImgTag)
    IN  IF fromMeta # <<>> THEN fromMeta ELSE [k \in 1..Len(tags) |-> tags[k].src]

\* lines 229 to 231
ProcessedUrl(u, candidate) ==
    IF ~IsPrefix(Http, candidate) THEN urljoin(u, candidate) ELSE candidate

\* lines 234 and 235
Acceptable(processed_url) ==
    /\ IsPrefix(HttpColon, processed_url) \/ IsPrefix(HttpsColon, processed_url)
    /\ HasImageExt(processed_url)

\* the first of the processed candidates that lines 234 and 235 accept, None if none
FirstAcceptable(processed) ==
    IF \E k \in 1..Len(processed) : Acceptable(processed[k])
    THEN <<processed[Min({k \in 1..Len(processed) : Acceptable(processed[k])})]>>
    ELSE <<>>

AllProcessed(u, candidates) == [k \in 1..Len(candidates) |-> ProcessedUrl(u, candidates[k])]

\* lines 228 to 240
ThumbnailOf(u, pg) == FirstAcceptable(AllProcessed(u, ImageCandidates(pg)))

\* None is <<>>, a dict is <<dict>>
get_link_metadata(u, pg) ==
    IF pg.status # "ok" THEN <<>>
    ELSE << [ url |-> u,
              title |-> TitleOf(u, pg),
              description |-> DescriptionOf(pg),
              thumbnail_url |-> ThumbnailOf(u, pg),
              site_domain |-> IF urlparse(u).netloc # <<>> THEN <<urlparse(u).netloc>>
                              ELSE <<>> ] >>

(***************************************************************************)
(* create_themed_embed, lines 260 to 312.                                  *)
(***************************************************************************)
Padded(description) ==
    \/ Len(description) < 100
    \/ \E w \in Markers : Contains(Lower(description), w)

\* lines 270 to 281 with a plausible slip: the cut made at the limit, the ellipsis added after
EmbedDescription_LateCut(url_data) ==
    LET framed == FramingHead \o url_data.title \o FramingTail \o url_data.description
    IN  IF Padded(url_data.description)
        THEN FirstN(padding_top \o <<"\n", "\n">> \o url_data.description
                    \o <<"\n", "\n">> \o padding_bottom, 4093)
        ELSE IF Len(framed) > 4000 THEN FirstN(framed, 4096) \o Ellipsis ELSE framed

\* lines 270 to 281
EmbedDescription(url_data) ==
    LET framed == FramingHead \o url_data.title \o FramingTail \o url_data.description
    IN  IF Padded(url_data.description)
        THEN FirstN(padding_top \o <<"\n", "\n">> \o url_data.description
                    \o <<"\n", "\n">> \o padding_bottom, 4093)
        ELSE IF Len(framed) > 4000 THEN FirstN(framed, 4093) \o Ellipsis ELSE framed

\* lines 303 to 307
FooterText(msg) ==
    FooterHead \o SharedBy \o msg.display_name
    \o (IF msg.guild THEN FooterJoin \o ChannelLabel \o msg.channel ELSE <<>>)
    \o FooterTail

create_themed_embed(url_data, msg) ==
    [ title |-> title_emojis_left \o <<" ">> \o url_data.title \o <<" ">> \o title_emojis_right,
      description |-> EmbedDescription(url_data),
      url |-> url_data.url,
      color |-> SELECTED_EMBED_COLOR,
      thumbnail |->
          IF url_data.thumbnail_url # <<>>
             /\ (IsPrefix(HttpColon, url_data.thumbnail_url[1])
                 \/ IsPrefix(HttpsColon, url_data.thumbnail_url[1]))
          THEN url_data.thumbnail_url ELSE <<>>,
      fields |->
          IF url_data.site_domain # <<>>
          THEN << [name |-> DomainFieldName,
                   value |-> <<"U+0060">> \o url_data.site_domain[1] \o <<"U+0060">>,
                   inline |-> TRUE] >>
          ELSE <<>>,
      footer |-> [text |-> FooterText(msg),
                  icon_url |-> IF msg.avatar # <<>> THEN msg.avatar[1] ELSE DefaultAvatarUrl] ]

(***************************************************************************)
(* One link of one message: resolved, then composed unless the resolver    *)
(* returned None.                                                          *)
(***************************************************************************)
InitMeta ==
    /\ InitChat
    /\ file = Missing
    /\ metaPc = "start"
    /\ url \in Urls
    /\ page \in Pages
    /\ message \in Messages
    /\ meta = <<>>
    /\ embed = <<>>

Resolve ==
    /\ metaPc = "start"
    /\ meta' = get_link_metadata(url, page)
    /\ metaPc' = IF meta' = <<>> THEN "none" ELSE "resolved"
    /\ UNCHANGED <<url, page, message, embed>>
    /\ UNCHANGED chatVars

Compose ==
    /\ metaPc = "resolved"
    /\ embed' = <<create_themed_embed(meta[1], message)>>
    /\ metaPc' = "composed"
    /\ UNCHANGED <<url, page, message, meta>>
    /\ UNCHANGED chatVars

NextMeta ==
    \/ Resolve
    \/ Compose

SpecMeta == InitMeta /\ [][NextMeta]_vars

(***************************************************************************)
(* What the claims speak of.                                               *)
(***************************************************************************)
\* the dict as json.dump would see it: its items, each key with its turns
Content(st, hp) == [j \in 1..Len(st) |-> [key |-> st[j].key, turns |-> hp[st[j].ref]]]

AllKeys == {IntKey(ch) : ch \in Channels} \cup {StrKey(ToStr(ch)) : ch \in Channels}

TurnsByKey(st, hp) == [k \in AllKeys |-> HistoryOf(st, hp, k)]

SomeHistory == \E j \in 1..Len(store) : heap[store[j].ref] # <<>>

\* the number of the message a user turn came from
MsgOf(content) == CHOOSE n \in 0..(MaxSent + MaxSentLong) : Body(n) = content

Paired(h) ==
    /\ Len(h) % 2 = 0
    /\ \A i \in 1..Len(h) :
          IF i % 2 = 1 THEN h[i].role = "user"
          ELSE h[i].role = "model" /\ h[i].content = Reply(h[i - 1].content)

\* this step is call c returning the completion's answer
ReturnsOk(c) ==
    /\ c \in calls
    /\ c \notin calls'
    /\ ret' = [n |-> c.n, outcome |-> "ok", text |-> Reply(c.text)]

\* this step is call c returning after the completion raised
ReturnsRaised(c) ==
    /\ c \in calls
    /\ c \notin calls'
    /\ ret'.n = c.n
    /\ ret'.outcome = "raised"

\* C1: after every successful exchange the channel's history is the latest (at
\* most 12) entries of what it was followed by the exchange's pair, in that
\* order, in whole user/response pairs.
C1_RollingWindow ==
    [][\A c \in calls :
          ReturnsOk(c) =>
              LET k == IntKey(c.ch)
                  new == HistoryOf(store', heap', k)
              IN  /\ new = LastN(HistoryOf(store, heap, k) \o Exchange(c.text),
                                 2 * MAX_HISTORY_TURNS)
                  /\ Len(new) <= 2 * MAX_HISTORY_TURNS
                  /\ Paired(new)]_vars

\* C2: a call whose completion raises returns the apology, and neither of its
\* two halves (up to the await, and from the exception on) appends a turn to
\* any channel.
C2_FailureLeavesHistory ==
    [][/\ \A c \in calls :
             ReturnsRaised(c) =>
                 /\ ret'.text = APOLOGY
                 /\ Content(store', heap') = Content(store, heap)
       /\ (calls' # calls /\ calls \subseteq calls') =>
                 TurnsByKey(store', heap') = TurnsByKey(store, heap)]_vars

C2_Witness ==
    /\ ret.outcome = "raised"
    /\ ret.text = APOLOGY
    /\ SomeHistory

\* C3: in every channel the stored user turns are in the order their messages
\* were received.
C3_ArrivalOrder ==
    \A ch \in Channels :
        LET h == HistoryOf(store, heap, IntKey(ch))
        IN  \A i, j \in 1..Len(h) :
                (i < j /\ h[i].role = "user" /\ h[j].role = "user")
                    => MsgOf(h[i].content) < MsgOf(h[j].content)

\* C4: saving the dict and loading the file gives back, for every channel
\* identifier, the turns the dict held for it.
C4_RoundTrip ==
    phase = "running" =>
        LET d == LoadDict(Dump(store, heap).members)
        IN  \A ch \in Channels :
                HistoryOf(d.store, d.heap, IntKey(ch)) = HistoryOf(store, heap, IntKey(ch))

\* this step may be get_gemini_response running up to its await or its early
\* return: nothing else adds a call or returns without ending one
TakesUpMessage == calls \subseteq calls' /\ (ret' # ret \/ sent' # sent)

\* C7: a message that is only the bot's mention or name is answered with the
\* empty string and changes nothing: no channel registered, no call
\* suspended at the completion, no save scheduled.
C7_EmptyIsNoOp ==
    [][TakesUpMessage =>
          \A ch \in Channels, raw \in MentionOnly :
              GetGeminiCall(ch, raw) =>
                  /\ ret'.outcome = "empty"
                  /\ ret'.text = <<>>
                  /\ UNCHANGED <<store, heap, calls, sent, pendingSaves, writing, file>>]_vars

C7_Witness ==
    /\ ret.outcome = "empty"
    /\ ret.text = <<>>
    /\ SomeHistory
    /\ \E ch \in Channels : ~HasKey(store, IntKey(ch))

\* what load_chat_history makes of a file holding a JSON object
LoadedAsIs(f, st, hp) ==
    /\ {st[j].key : j \in 1..Len(st)} = {StrKey(f.members[j].name) : j \in 1..Len(f.members)}
    /\ \A j \in 1..Len(f.members) :
          (\A i \in (j + 1)..Len(f.members) : f.members[i].name # f.members[j].name)
              => HistoryOf(st, hp, StrKey(f.members[j].name)) = f.members[j].value

\* this step is call c returning the first successful exchange of a process
\* that found no file
FirstExchange(c) == bootLog = "not found" /\ ~SomeHistory /\ ReturnsOk(c)

LoadStep == phase = "boot" /\ phase' # "boot"

\* C9 as claimed: load_chat_history leaves the process running, with an empty
\* dict unless the file holds a JSON object, which becomes the dict; and after
\* the first successful exchange of a process that found no file the dict has
\* exactly one channel, holding exactly that exchange's pair.
C9_AsClaimed ==
    [][/\ LoadStep =>
             /\ phase' = "running"
             /\ file.kind # "object" => store' = <<>>
             /\ file.kind = "object" => LoadedAsIs(file, store', heap')
       /\ \A c \in calls :
             FirstExchange(c) =>
                 /\ Len(store') = 1
                 /\ HistoryOf(store', heap', IntKey(c.ch)) = Exchange(c.text)]_vars

\* C9 amended: the same, except that the dict may also hold channels that
\* calls which raised or are still suspended registered, all of them empty.
C9_LoadAndFirstExchange ==
    [][/\ LoadStep =>
             /\ phase' = "running"
             /\ file.kind # "object" => store' = <<>>
             /\ file.kind = "object" => LoadedAsIs(file, store', heap')
       /\ \A c \in calls :
             FirstExchange(c) =>
                 /\ HistoryOf(store', heap', IntKey(c.ch)) = Exchange(c.text)
                 /\ \A j \in 1..Len(store') :
                       store'[j].key # IntKey(c.ch) => heap'[store'[j].ref] = <<>>]_vars

C9_Witness ==
    /\ bootLog = "not found"
    /\ ret.outcome = "ok"
    /\ Len(store) = 2
    /\ \E j \in 1..Len(store) :
          /\ heap[store[j].ref] = Exchange(Body(ret.n))
          /\ \A i \in 1..Len(store) : i # j => heap[store[i].ref] = <<>>

\* this step is a save ending in failure: the task could not start the write,
\* or the write broke off
SaveFails ==
    \/ pendingSaves' = pendingSaves - 1 /\ writing' = writing
    \/ writing' = writing - 1 /\ pendingSaves' = pendingSaves /\ file' = Corrupt

NoUsableTitle == ScrapedTitle(page) = DEFAULT_TITLE \/ Len(ScrapedTitle(page)) < 5

\* the last path segment of the link gives no candidate of 5 to 59 characters
NoCandidate == ~(Len(CandidateTitle(url)) >= 5 /\ Len(CandidateTitle(url)) <= 59)

\* C5: every record get_link_metadata returns has a non-empty title and a
\* non-empty description, and when the page gives no usable title and the
\* link no candidate, the title is the fixed placeholder.
C5_TitleAndDescription ==
    meta # <<>> =>
        /\ meta[1].title # <<>>
        /\ meta[1].description # <<>>
        /\ (NoUsableTitle /\ NoCandidate => meta[1].title = DEFAULT_TITLE)

ExpectedThumb ==
    << "h", "t", "t", "p", ":", "/", "/", "e", "x", "a", "m", "p", "l", "e", ".", "c", "o",
       "m", "/", "i", "m", "g", ".", "p", "n", "g" >>

\* the page of the scenario: og:title "Cool Thing", an og:description of 80
\* characters with no marker phrase in it, og:image "/img.png", at
\* http://example.com/cool-thing
CoolThingScenario ==
    /\ url = UrlCoolThing
    /\ page.status = "ok"
    /\ page.og_title = <<CoolThing>>
    /\ Truthy(page.og_description)
    /\ Len(page.og_description[1]) = 80
    /\ ~\E w \in Markers : Contains(Lower(page.og_description[1]), w)
    /\ page.og_image = <<ImgRootRelative>>

FramingLine == FramingHead \o CoolThing \o FramingTail

\* C6 as the specification states it: the card of the scenario has a title
\* containing "Cool Thing", a description that starts with the "Let me make
\* it shine" framing line and not with the "found something lovely" padding,
\* and the thumbnail http://example.com/img.png.
C6_AsClaimed ==
    CoolThingScenario /\ embed # <<>> =>
        /\ Contains(embed[1].title, CoolThing)
        /\ IsPrefix(FramingLine, embed[1].description)
        /\ ~IsPrefix(padding_top, embed[1].description)
        /\ embed[1].thumbnail = <<ExpectedThumb>>

\* C6: the card of the scenario has a title containing "Cool Thing", a
\* description that starts with the "found something lovely" padding and not
\* with the "Let me make it shine" framing line (the resolved description, 88
\* characters, is under 100), and the thumbnail http://example.com/img.png.
C6_CoolThingCard ==
    CoolThingScenario /\ embed # <<>> =>
        /\ Contains(embed[1].title, CoolThing)
        /\ IsPrefix(padding_top, embed[1].description)
        /\ ~IsPrefix(FramingLine, embed[1].description)
        /\ Len(meta[1].description) = 88
        /\ embed[1].thumbnail = <<ExpectedThumb>>

C6_Witness == CoolThingScenario /\ metaPc = "composed" /\ embed # <<>>

WithoutOldest(h, k) == SubSeq(h, k + 1, Len(h))

\* C11: no lost update: when a call returns the completion's answer, the
\* channel's stored history becomes what was stored, less some whole pairs
\* from its oldest end, followed by the call's pair; no pair that was stored
\* is dropped from anywhere else, whatever list the call fetched before the
\* await.
C11_NoLostUpdate ==
    [][\A c \in calls :
          ReturnsOk(c) =>
              LET stored == HistoryOf(store, heap, IntKey(c.ch))
              IN  \E k \in 0..Len(stored) :
                      /\ k % 2 = 0
                      /\ HistoryOf(store', heap', IntKey(c.ch))
                           = WithoutOldest(stored, k) \o Exchange(c.text)]_vars

====
